---------------------------- MODULE Spec2Model ----------------------------
(***************************************************************************)
(* A model of the code examples of green7ea/blog:                          *)
(*   - modern-cpp: the three file-descriptor wrappers NaiveFile, SafeFile  *)
(*     and FileWrapper, the kernel's descriptor table they act on, and     *)
(*     the main program that exercises them;                               *)
(*   - smart-ptr: ConfigWatcher / Config, count_good and count_bad.        *)
(***************************************************************************)
EXTENDS Integers, Sequences, FiniteSets, TLC

(***************************************************************************)
(* Bounds of the model.                                                    *)
(***************************************************************************)
MaxObj == 2      \* wrapper objects a run may create
MaxFd == 2       \* descriptor numbers the process may hold besides 0, 1, 2
MaxHolders == 2  \* variables holding a pointer returned by get_config
MaxUpdates == 3  \* calls of update_config in a run
MaxStrLen == 3   \* length of the strings count_good and count_bad are given
MaxAlias == 2    \* other shared_ptr<std::string> variables of a caller
MaxIncludes == 2 \* #include lines a source file may have before its own
MaxNum == 3      \* magnitude of the integers divide is called with

(***************************************************************************)
(* Program constants.                                                      *)
(***************************************************************************)
nbytes == 1024   \* const int nbytes = 1024
FirstFd == 3     \* 0, 1 and 2 are stdin, stdout and stderr

ObjIds == 1..MaxObj

\* The objects of the modern-cpp main program, in order of construction.
naive_file == 1   \* NaiveFile naive_file
file_param == 2   \* the by-value parameter 'file' of accidental_copy
file2 == 3        \* auto file2 = naive_file
safe_file == 4    \* SafeFile safe_file
file == 5         \* FileWrapper file
MainObjIds == {naive_file, file_param, file2, safe_file, file}
\* Sizes __FILE__ may have: empty, short, exactly one buffer, more.
MainFileLens == {0, 5, nbytes, nbytes + 6}
FdNums == FirstFd..(FirstFd + MaxFd - 1)
\* Sizes of the files a path may name: empty, and one buffer and a short
\* tail (read gives nbytes, then 6, then 0).
FileLens == {0, nbytes + 6}

VARIABLES
  fdtable,   \* kernel: descriptor number -> index into descs, 0 when not open
  descs,     \* kernel: one record per successful open, in order of opening
  objs,      \* the wrapper objects: kind, lifetime state, the field fd,
             \* (history) own: the open that produced the number held in fd,
             \* (history) from: the object it was copy- or move-constructed
             \* from, 0 when it opened a path itself,
             \* (history) log: what the object's special members did, in
             \* order: printf/fprintf lines, close(2) calls with their result,
             \* destructor entries
  rd,        \* the last read_1024 call and what it returned
  pc,        \* modern-cpp main: the statement to run next
  out,       \* modern-cpp main: what accidental_copy printed
  heap,      \* smart-ptr: the Config objects made by make_shared, each with
             \* its control block's use count
  watcher,   \* smart-ptr: the ConfigWatcher and its member config
  holders,   \* smart-ptr: the shared_ptr<const Config> variables of callers,
             \* with what each last read through its pointer
  nupdates,  \* smart-ptr (history): calls of update_config so far
  strheap,   \* smart-ptr: the std::string objects made by make_shared
  shared,    \* smart-ptr: the caller's shared_ptr<std::string>
  call,      \* smart-ptr: the last count_good / count_bad / mutate call:
             \* argument d, return value, and (history) the string's value
             \* before it
  others,    \* smart-ptr: the caller's other shared_ptr<std::string>
             \* variables, each null or pointing at a string object
  unique,    \* smart-ptr: the caller's unique_ptr<std::string>
  dv,        \* interface-typing: the last call of divide: its arguments and
             \* how it ended
  cc         \* build: the source files, the compiler run in progress (its
             \* pre-processor state, the lines still to process, the text
             \* produced so far) and the result of each finished run

fileVars == <<fdtable, descs, objs, rd>>
mainVars == <<pc, out>>
configVars == <<heap, watcher, holders, nupdates>>
countVars == <<strheap, shared, call, others, unique>>
buildVars == <<cc>>
typingVars == <<dv>>
smartVars == <<configVars, countVars, buildVars, typingVars>>
vars == <<fdtable, descs, objs, rd, pc, out, heap, watcher, holders, nupdates,
          strheap, shared, call, others, unique, dv, cc>>

Min(a, b) == IF a < b THEN a ELSE b

NoObj == [kind |-> "none", st |-> "unborn", fd |-> -1, own |-> 0, from |-> 0,
          log |-> <<>>]
NoReport == [big |-> FALSE, size |-> -1]
HolderIds == 1..MaxHolders
AliasIds == 1..MaxAlias
NoSeen == [hostname |-> "", port |-> -1, url |-> "", at |-> -1]
NoHolder == [ptr |-> 0, since |-> -1, seen |-> NoSeen]
NoCall == [fn |-> "none", d |-> "", ret |-> -1, before |-> <<>>]
NoRead == [syscall |-> FALSE, n |-> 0, start |-> 0, len |-> 0]
EmptyString == [start |-> 0, len |-> 0]

Event(e, f, r) == [ev |-> e, fd |-> f, res |-> r]

(***************************************************************************)
(* The kernel: open(2), close(2), read(2) on the descriptor table.         *)
(***************************************************************************)
\* open(path, O_RDONLY): the lowest descriptor number not open, or -1 when
\* the path cannot be opened (ok = FALSE) or the table is full.
sys_open(ok, len) ==
  IF ok /\ \E f \in FdNums : fdtable[f] = 0
  THEN LET f == CHOOSE g \in FdNums :
                  fdtable[g] = 0 /\ \A h \in FdNums : h < g => fdtable[h] # 0
       IN [ret |-> f,
           fdtable |-> [fdtable EXCEPT ![f] = Len(descs) + 1],
           descs |-> Append(descs, [fd |-> f, len |-> len, off |-> 0,
                                     open |-> TRUE])]
  ELSE [ret |-> -1, fdtable |-> fdtable, descs |-> descs]

\* close(fd): 0 and the descriptor is released, or -1 (EBADF) when fd is not
\* an open descriptor.
sys_close(fd) ==
  IF fd \in FdNums /\ fdtable[fd] # 0
  THEN [ret |-> 0,
        fdtable |-> [fdtable EXCEPT ![fd] = 0],
        descs |-> [descs EXCEPT ![fdtable[fd]].open = FALSE]]
  ELSE [ret |-> -1, fdtable |-> fdtable, descs |-> descs]

\* Mutant: a read that leaves the file offset where it was.
sys_read_no_advance(fd, count, err) ==
  IF fd \notin FdNums \/ fdtable[fd] = 0 \/ err
  THEN [ret |-> -1, start |-> 0, descs |-> descs]
  ELSE LET i == fdtable[fd]
           n == Min(count, descs[i].len - descs[i].off)
       IN [ret |-> n, start |-> descs[i].off, descs |-> descs]

\* read(fd, buf, count): -1 when fd is not open or the read fails (err),
\* otherwise the number of bytes left from the file offset, at most count; the
\* offset advances by that number.  start is where the bytes come from.
sys_read(fd, count, err) ==
  IF fd \notin FdNums \/ fdtable[fd] = 0 \/ err
  THEN [ret |-> -1, start |-> 0, descs |-> descs]
  ELSE LET i == fdtable[fd]
           n == Min(count, descs[i].len - descs[i].off)
       IN [ret |-> n, start |-> descs[i].off,
           descs |-> [descs EXCEPT ![i].off = @ + n]]

\* Mutant: return std::string(buf, nbytes) instead of std::string(buf, n).
read_1024_body_full(o, err) ==
  IF objs[o].fd < 0
  THEN /\ rd' = [syscall |-> FALSE, n |-> 0,
                 start |-> EmptyString.start, len |-> EmptyString.len]
       /\ UNCHANGED descs
  ELSE LET r == sys_read(objs[o].fd, nbytes, err)
       IN /\ descs' = r.descs
          /\ rd' = IF r.ret <= 0
                   THEN [syscall |-> TRUE, n |-> r.ret,
                         start |-> EmptyString.start, len |-> EmptyString.len]
                   ELSE [syscall |-> TRUE, n |-> r.ret,
                         start |-> r.start, len |-> nbytes]

\* Mutant: read_1024 without the check of fd.
read_1024_body_unguarded(o, err) ==
  LET r == sys_read(objs[o].fd, nbytes, err)
  IN /\ descs' = r.descs
     /\ rd' = IF r.ret <= 0
              THEN [syscall |-> TRUE, n |-> r.ret,
                    start |-> EmptyString.start, len |-> EmptyString.len]
              ELSE [syscall |-> TRUE, n |-> r.ret,
                    start |-> r.start, len |-> r.ret]

\* The body shared, text for text, by NaiveFile::read_1024,
\* SafeFile::read_1024 and FileWrapper::read_1024.
read_1024_body(o, err) ==
  IF objs[o].fd < 0
  THEN /\ rd' = [syscall |-> FALSE, n |-> 0,
                 start |-> EmptyString.start, len |-> EmptyString.len]
       /\ UNCHANGED descs
  ELSE LET r == sys_read(objs[o].fd, nbytes, err)
       IN /\ descs' = r.descs
          /\ rd' = IF r.ret <= 0
                   THEN [syscall |-> TRUE, n |-> r.ret,
                         start |-> EmptyString.start, len |-> EmptyString.len]
                   ELSE [syscall |-> TRUE, n |-> r.ret,
                         start |-> r.start, len |-> r.ret]

Live(o, k) == o \in DOMAIN objs /\ objs[o].st = "live" /\ objs[o].kind = k
\* Objects are created in slot order.
Fresh(o) ==
  /\ o \in DOMAIN objs
  /\ objs[o].st = "unborn"
  /\ \A p \in DOMAIN objs : p < o => objs[p].st # "unborn"

(***************************************************************************)
(* SafeFile                                                                *)
(***************************************************************************)
SafeFile_ctor(o, ok, len) ==
  /\ Fresh(o)
  /\ LET r == sys_open(ok, len)
     IN /\ fdtable' = r.fdtable
        /\ descs' = r.descs
        /\ objs' = [objs EXCEPT ![o] =
                      [kind |-> "Safe", st |-> "live", fd |-> r.ret,
                       own |-> IF r.ret >= 0 THEN Len(r.descs) ELSE 0,
                       from |-> 0, log |-> <<>>]]
  /\ UNCHANGED rd

\* Mutant: a destructor that forgets to close.
SafeFile_dtor_leak(o) ==
  /\ Live(o, "Safe")
  /\ objs' = [objs EXCEPT ![o].st = "dead",
                          ![o].log = Append(@, Event("dtor", objs[o].fd, 0))]
  /\ UNCHANGED <<fdtable, descs, rd>>

SafeFile_dtor(o) ==
  /\ Live(o, "Safe")
  /\ IF objs[o].fd >= 0
     THEN LET r == sys_close(objs[o].fd)
              l1 == <<Event("dtor", objs[o].fd, 0),
                      Event("stdout_closing", objs[o].fd, 0),
                      Event("close", objs[o].fd, r.ret)>>
              l2 == IF r.ret < 0
                    THEN Append(l1, Event("stderr", objs[o].fd, r.ret))
                    ELSE l1
          IN /\ fdtable' = r.fdtable
             /\ descs' = r.descs
             /\ objs' = [objs EXCEPT ![o].st = "dead", ![o].log = @ \o l2]
     ELSE /\ objs' = [objs EXCEPT ![o].st = "dead",
                                  ![o].log = Append(@, Event("dtor", objs[o].fd, 0))]
          /\ UNCHANGED <<fdtable, descs>>
  /\ UNCHANGED rd

SafeFile_read_1024(o, err) ==
  /\ Live(o, "Safe")
  /\ read_1024_body(o, err)
  /\ UNCHANGED <<fdtable, objs>>

(***************************************************************************)
(* NaiveFile: a user constructor and destructor, and the copy operations   *)
(* the compiler defaults (member-wise copy of the int fd).                 *)
(***************************************************************************)
NaiveFile_ctor(o, ok, len) ==
  /\ Fresh(o)
  /\ LET r == sys_open(ok, len)
     IN /\ fdtable' = r.fdtable
        /\ descs' = r.descs
        /\ objs' = [objs EXCEPT ![o] =
                      [kind |-> "Naive", st |-> "live", fd |-> r.ret,
                       own |-> IF r.ret >= 0 THEN Len(r.descs) ELSE 0,
                       from |-> 0,
                       log |-> <<Event("stdout_open", r.ret, 0)>>]]
  /\ UNCHANGED rd

\* Mutant: a copy that does not take the descriptor number.
NaiveFile_copy_nofd(src, dst) ==
  /\ Live(src, "Naive")
  /\ Fresh(dst)
  /\ objs' = [objs EXCEPT ![dst] =
                [kind |-> "Naive", st |-> "live", fd |-> -1,
                 own |-> 0, from |-> src, log |-> <<>>]]
  /\ UNCHANGED <<fdtable, descs, rd>>

\* NaiveFile(const NaiveFile &), defaulted: the new object gets the same fd.
NaiveFile_copy(src, dst) ==
  /\ Live(src, "Naive")
  /\ Fresh(dst)
  /\ objs' = [objs EXCEPT ![dst] =
                [kind |-> "Naive", st |-> "live", fd |-> objs[src].fd,
                 own |-> objs[src].own, from |-> src, log |-> <<>>]]
  /\ UNCHANGED <<fdtable, descs, rd>>

\* Mutant: a destructor that ignores the result of close.
NaiveFile_dtor_silent(o) ==
  /\ Live(o, "Naive")
  /\ IF objs[o].fd >= 0
     THEN LET r == sys_close(objs[o].fd)
              l1 == <<Event("dtor", objs[o].fd, 0),
                      Event("stdout_closing", objs[o].fd, 0),
                      Event("close", objs[o].fd, r.ret)>>
          IN /\ fdtable' = r.fdtable
             /\ descs' = r.descs
             /\ objs' = [objs EXCEPT ![o].st = "dead", ![o].log = @ \o l1]
     ELSE /\ objs' = [objs EXCEPT ![o].st = "dead",
                                  ![o].log = Append(@, Event("dtor", objs[o].fd, 0))]
          /\ UNCHANGED <<fdtable, descs>>
  /\ UNCHANGED rd

\* Mutant: a destructor without the test of fd.
NaiveFile_dtor_unguarded(o) ==
  /\ Live(o, "Naive")
  /\ LET r == sys_close(objs[o].fd)
         l1 == <<Event("dtor", objs[o].fd, 0),
                 Event("stdout_closing", objs[o].fd, 0),
                 Event("close", objs[o].fd, r.ret)>>
         l2 == IF r.ret < 0
               THEN Append(l1, Event("stderr", objs[o].fd, r.ret))
               ELSE l1
     IN /\ fdtable' = r.fdtable
        /\ descs' = r.descs
        /\ objs' = [objs EXCEPT ![o].st = "dead", ![o].log = @ \o l2]
  /\ UNCHANGED rd

NaiveFile_dtor(o) ==
  /\ Live(o, "Naive")
  /\ IF objs[o].fd >= 0
     THEN LET r == sys_close(objs[o].fd)
              l1 == <<Event("dtor", objs[o].fd, 0),
                      Event("stdout_closing", objs[o].fd, 0),
                      Event("close", objs[o].fd, r.ret)>>
              l2 == IF r.ret < 0
                    THEN Append(l1, Event("stderr", objs[o].fd, r.ret))
                    ELSE l1
          IN /\ fdtable' = r.fdtable
             /\ descs' = r.descs
             /\ objs' = [objs EXCEPT ![o].st = "dead", ![o].log = @ \o l2]
     ELSE /\ objs' = [objs EXCEPT ![o].st = "dead",
                                  ![o].log = Append(@, Event("dtor", objs[o].fd, 0))]
          /\ UNCHANGED <<fdtable, descs>>
  /\ UNCHANGED rd

NaiveFile_read_1024(o, err) ==
  /\ Live(o, "Naive")
  /\ read_1024_body(o, err)
  /\ UNCHANGED <<fdtable, objs>>

(***************************************************************************)
(* FileWrapper: copies deleted, move constructor and move assignment.      *)
(***************************************************************************)
FileWrapper_ctor(o, ok, len) ==
  /\ Fresh(o)
  /\ LET r == sys_open(ok, len)
     IN /\ fdtable' = r.fdtable
        /\ descs' = r.descs
        /\ objs' = [objs EXCEPT ![o] =
                      [kind |-> "File", st |-> "live", fd |-> r.ret,
                       own |-> IF r.ret >= 0 THEN Len(r.descs) ELSE 0,
                       from |-> 0, log |-> <<>>]]
  /\ UNCHANGED rd

\* Mutant: a move constructor that leaves the source's fd in place.
FileWrapper_move_ctor_keep(src, dst) ==
  /\ Live(src, "File")
  /\ Fresh(dst)
  /\ objs' = [objs EXCEPT ![dst] =
                          [kind |-> "File", st |-> "live", fd |-> objs[src].fd,
                           own |-> objs[src].own, from |-> src,
                           log |-> <<>>]]
  /\ UNCHANGED <<fdtable, descs, rd>>

\* FileWrapper(FileWrapper &&wrapper) : fd(wrapper.fd) { wrapper.fd = -1; }
FileWrapper_move_ctor(src, dst) ==
  /\ Live(src, "File")
  /\ Fresh(dst)
  /\ objs' = [objs EXCEPT ![dst] =
                          [kind |-> "File", st |-> "live", fd |-> objs[src].fd,
                           own |-> objs[src].own, from |-> src,
                           log |-> <<>>],
                        ![src].fd = -1,
                        ![src].own = 0]
  /\ UNCHANGED <<fdtable, descs, rd>>

\* Mutant: a move assignment that leaves the source's fd in place.
FileWrapper_move_assign_keep(src, dst) ==
  /\ Live(src, "File")
  /\ Live(dst, "File")
  /\ objs' = [objs EXCEPT ![dst].fd = objs[src].fd, ![dst].own = objs[src].own]
  /\ UNCHANGED <<fdtable, descs, rd>>

\* Mutant: a move assignment that exchanges the two fds (std::swap).
FileWrapper_move_assign_swap(src, dst) ==
  /\ Live(src, "File")
  /\ Live(dst, "File")
  /\ objs' = [objs EXCEPT ![dst].fd = objs[src].fd, ![dst].own = objs[src].own,
                          ![src].fd = objs[dst].fd, ![src].own = objs[dst].own]
  /\ UNCHANGED <<fdtable, descs, rd>>

\* operator=(FileWrapper &&wrapper): this->fd = wrapper.fd; wrapper.fd = -1;
\* in that order, also when wrapper is *this.
FileWrapper_move_assign(src, dst) ==
  /\ Live(src, "File")
  /\ Live(dst, "File")
  /\ LET o1 == [objs EXCEPT ![dst].fd = objs[src].fd,
                            ![dst].own = objs[src].own]
     IN objs' = [o1 EXCEPT ![src].fd = -1, ![src].own = 0]
  /\ UNCHANGED <<fdtable, descs, rd>>

FileWrapper_dtor(o) ==
  /\ Live(o, "File")
  /\ IF objs[o].fd >= 0
     THEN LET r == sys_close(objs[o].fd)
              l1 == <<Event("dtor", objs[o].fd, 0),
                      Event("close", objs[o].fd, r.ret)>>
              l2 == IF r.ret < 0
                    THEN Append(l1, Event("stderr", objs[o].fd, r.ret))
                    ELSE l1
          IN /\ fdtable' = r.fdtable
             /\ descs' = r.descs
             /\ objs' = [objs EXCEPT ![o].st = "dead", ![o].log = @ \o l2]
     ELSE /\ objs' = [objs EXCEPT ![o].st = "dead",
                                  ![o].log = Append(@, Event("dtor", objs[o].fd, 0))]
          /\ UNCHANGED <<fdtable, descs>>
  /\ UNCHANGED rd

FileWrapper_read_1024(o, err) ==
  /\ Live(o, "File")
  /\ read_1024_body(o, err)
  /\ UNCHANGED <<fdtable, objs>>

(***************************************************************************)
(* modern-cpp main: the three blocks, one statement per step.  Scope exit  *)
(* destroys a block's objects in reverse order of construction.            *)
(***************************************************************************)
\* accidental_copy's if/else on content.size()
accidental_copy_report(size) ==
  IF size >= nbytes
  THEN [big |-> TRUE, size |-> -1]      \* "File is bigger than 1KB"
  ELSE [big |-> FALSE, size |-> size]   \* "File is %zu bytes long"

Main_naive_ctor ==
  /\ pc = "naive_ctor"
  /\ \E ok \in BOOLEAN, len \in MainFileLens : NaiveFile_ctor(naive_file, ok, len)
  /\ pc' = "call_accidental_copy"
  /\ UNCHANGED <<out, smartVars>>

\* accidental_copy(naive_file): the argument is copy-constructed.
Main_call_accidental_copy ==
  /\ pc = "call_accidental_copy"
  /\ NaiveFile_copy(naive_file, file_param)
  /\ pc' = "ac_read"
  /\ UNCHANGED <<out, smartVars>>

\* auto content = file.read_1024(); and the printf of its size
Main_ac_read ==
  /\ pc = "ac_read"
  /\ \E err \in BOOLEAN : NaiveFile_read_1024(file_param, err)
  /\ out' = accidental_copy_report(rd'.len)
  /\ pc' = "ac_return"
  /\ UNCHANGED smartVars

\* Mutant: accidental_copy returns without a parameter object to destroy
\* (as if it took its argument by reference).
Main_ac_return_by_ref ==
  /\ pc = "ac_return"
  /\ pc' = "copy2"
  /\ UNCHANGED <<fileVars, out, smartVars>>

\* accidental_copy returns: its parameter is destroyed.
Main_ac_return ==
  /\ pc = "ac_return"
  /\ NaiveFile_dtor(file_param)
  /\ pc' = "copy2"
  /\ UNCHANGED <<out, smartVars>>

Main_copy2 ==
  /\ pc = "copy2"
  /\ NaiveFile_copy(naive_file, file2)
  /\ pc' = "naive_exit_file2"
  /\ UNCHANGED <<out, smartVars>>

\* Mutant: safe_file is constructed inside the NaiveFile block, before its
\* objects are destroyed.
Main_safe_ctor_in_naive_block ==
  /\ pc = "naive_exit_file2"
  /\ \E ok \in BOOLEAN, len \in MainFileLens : SafeFile_ctor(safe_file, ok, len)
  /\ pc' = "naive_exit_naive_file"
  /\ UNCHANGED <<out, smartVars>>

Main_naive_exit_file2 ==
  /\ pc = "naive_exit_file2"
  /\ NaiveFile_dtor(file2)
  /\ pc' = "naive_exit_naive_file"
  /\ UNCHANGED <<out, smartVars>>

Main_naive_exit_naive_file ==
  /\ pc = "naive_exit_naive_file"
  /\ NaiveFile_dtor(naive_file)
  /\ pc' = "safe_ctor"
  /\ UNCHANGED <<out, smartVars>>

Main_safe_ctor ==
  /\ pc = "safe_ctor"
  /\ \E ok \in BOOLEAN, len \in MainFileLens : SafeFile_ctor(safe_file, ok, len)
  /\ pc' = "safe_exit"
  /\ UNCHANGED <<out, smartVars>>

\* Mutant: the SafeFile block ends without destroying safe_file.
Main_safe_exit_skip ==
  /\ pc = "safe_exit"
  /\ pc' = "file_ctor"
  /\ UNCHANGED <<fileVars, out, smartVars>>

Main_safe_exit ==
  /\ pc = "safe_exit"
  /\ SafeFile_dtor(safe_file)
  /\ pc' = "file_ctor"
  /\ UNCHANGED <<out, smartVars>>

Main_file_ctor ==
  /\ pc = "file_ctor"
  /\ \E ok \in BOOLEAN, len \in MainFileLens : FileWrapper_ctor(file, ok, len)
  /\ pc' = "file_exit"
  /\ UNCHANGED <<out, smartVars>>

\* Mutant: the FileWrapper block ends without destroying file.
Main_file_exit_skip ==
  /\ pc = "file_exit"
  /\ pc' = "done"
  /\ UNCHANGED <<fileVars, out, smartVars>>

Main_file_exit ==
  /\ pc = "file_exit"
  /\ FileWrapper_dtor(file)
  /\ pc' = "done"
  /\ UNCHANGED <<out, smartVars>>

(***************************************************************************)
(* smart-ptr: Config, ConfigWatcher and the holders of the pointers        *)
(* get_config returns.  A shared_ptr is the address of its object (an      *)
(* index into heap, 0 when empty); the control block's use count is kept   *)
(* with the object, which is destroyed when the count reaches 0.           *)
(***************************************************************************)
\* std::make_shared<Config>(c): a new object owned by one pointer.
make_shared(hp, c) ==
  Append(hp, [hostname |-> c.hostname, port |-> c.port, url |-> c.url,
              use_count |-> 1, alive |-> TRUE])

\* Copying a shared_ptr: one more owner.
sp_copy(hp, a) == [hp EXCEPT ![a].use_count = @ + 1]

\* Mutant: an owning raw pointer: destroying it deletes the object.
sp_release_delete(hp, a) ==
  [hp EXCEPT ![a].use_count = @ - 1, ![a].alive = FALSE]

\* Destroying or resetting a shared_ptr: one owner fewer, and the object is
\* destroyed with the last one.
sp_release(hp, a) ==
  [hp EXCEPT ![a].use_count = @ - 1, ![a].alive = (hp[a].use_count - 1 > 0)]

\* ConfigWatcher(): config(make_shared<Config>(Config{"localhost", 80, "/index.html"}))
ConfigWatcher_ctor ==
  [heap |-> make_shared(<<>>, [hostname |-> "localhost", port |-> 80,
                               url |-> "/index.html"]),
   watcher |-> [st |-> "live", config |-> 1]]

\* Mutant: get_config that also bumps the port.
get_config_and_update(h) ==
  /\ watcher.st = "live"
  /\ holders[h].ptr = 0
  /\ heap' = [sp_copy(heap, watcher.config) EXCEPT ![watcher.config].port = @ + 1]
  /\ holders' = [holders EXCEPT ![h].ptr = watcher.config, ![h].since = nupdates]
  /\ UNCHANGED <<watcher, nupdates>>

\* std::shared_ptr<const Config> config = watcher.get_config();
\* the returned pointer is a copy of the member, stored in holder h.
get_config(h) ==
  /\ watcher.st = "live"
  /\ holders[h].ptr = 0
  /\ heap' = sp_copy(heap, watcher.config)
  /\ holders' = [holders EXCEPT ![h].ptr = watcher.config, ![h].since = nupdates]
  /\ UNCHANGED <<watcher, nupdates>>

\* Mutant: update_config that installs a new Config object.
update_config_replace ==
  /\ watcher.st = "live"
  /\ nupdates < MaxUpdates
  /\ LET old == heap[watcher.config]
         h1 == make_shared(heap, [hostname |-> old.hostname,
                                  port |-> old.port + 1, url |-> old.url])
     IN /\ heap' = sp_release(h1, watcher.config)
        /\ watcher' = [watcher EXCEPT !.config = Len(h1)]
  /\ nupdates' = nupdates + 1
  /\ UNCHANGED holders

\* config->port += 1;
update_config ==
  /\ watcher.st = "live"
  /\ nupdates < MaxUpdates
  /\ heap' = [heap EXCEPT ![watcher.config].port = @ + 1]
  /\ nupdates' = nupdates + 1
  /\ UNCHANGED <<watcher, holders>>

\* ~ConfigWatcher(): the member config is destroyed.
ConfigWatcher_dtor ==
  /\ watcher.st = "live"
  /\ heap' = sp_release(heap, watcher.config)
  /\ watcher' = [st |-> "dead", config |-> 0]
  /\ UNCHANGED <<holders, nupdates>>

\* A holder reads the fields through its pointer (config->port).
Holder_read(h) ==
  /\ holders[h].ptr # 0
  /\ LET c == heap[holders[h].ptr]
     IN holders' = [holders EXCEPT ![h].seen =
                      [hostname |-> c.hostname, port |-> c.port, url |-> c.url,
                       at |-> nupdates]]
  /\ UNCHANGED <<heap, watcher, nupdates>>

\* A holder copies its pointer into another variable.
Holder_copy(h, h2) ==
  /\ holders[h].ptr # 0
  /\ holders[h2].ptr = 0
  /\ heap' = sp_copy(heap, holders[h].ptr)
  /\ holders' = [holders EXCEPT ![h2].ptr = holders[h].ptr,
                                ![h2].since = holders[h].since]
  /\ UNCHANGED <<watcher, nupdates>>

\* A holder's pointer goes out of scope.
Holder_drop(h) ==
  /\ holders[h].ptr # 0
  /\ heap' = sp_release(heap, holders[h].ptr)
  /\ holders' = [holders EXCEPT ![h] = NoHolder]
  /\ UNCHANGED <<watcher, nupdates>>

(***************************************************************************)
(* smart-ptr: count_good and count_bad.  A std::string is a sequence of    *)
(* characters.                                                             *)
(***************************************************************************)
Chars == {"l", "o", "*"}
RECURSIVE StringsOfLen(_)
StringsOfLen(n) ==
  IF n = 0 THEN {<<>>}
  ELSE {Append(t, c) : t \in StringsOfLen(n - 1), c \in Chars}
\* "Hello shared world!"
HelloSharedWorld ==
  <<"H", "e", "l", "l", "o", " ", "s", "h", "a", "r", "e", "d", " ",
    "w", "o", "r", "l", "d", "!">>
Strings == UNION {StringsOfLen(n) : n \in 0..MaxStrLen} \cup {HelloSharedWorld}

\* The for loop of count_good, from iterator position it with count so far.
RECURSIVE count_good_loop(_, _, _, _)
count_good_loop(s, d, it, count) ==
  IF it = Len(s) + 1 THEN count
  ELSE count_good_loop(s, d, it + 1, IF s[it] = d THEN count + 1 ELSE count)

\* Mutant: a loop that starts after the first character.
count_good_skip_first(s, d) == count_good_loop(s, d, IF Len(s) > 0 THEN 2 ELSE 1, 0)

count_good(s, d) == count_good_loop(s, d, 1, 0)

\* The for loop of count_bad: the count so far and the string as written so far.
RECURSIVE count_bad_loop(_, _, _, _)
count_bad_loop(s, d, it, count) ==
  IF it = Len(s) + 1 THEN [count |-> count, s |-> s]
  ELSE IF s[it] = d
       THEN count_bad_loop([s EXCEPT ![it] = "*"], d, it + 1, count + 1)
       ELSE count_bad_loop(s, d, it + 1, count)

\* Mutant: counting without the write through the iterator.
count_bad_no_write(s, d) == [count |-> count_good_loop(s, d, 1, 0), s |-> s]

\* count_bad on the string object *s.
count_bad(s, d) == count_bad_loop(s, d, 1, 0)

\* int good = count_good(*shared, 'l');
Call_count_good(d) ==
  /\ shared # 0
  /\ call' = [fn |-> "count_good", d |-> d,
              ret |-> count_good(strheap[shared], d),
              before |-> strheap[shared]]
  /\ UNCHANGED <<strheap, shared, others, unique>>

\* int bad = count_bad(shared, 'l');
Call_count_bad(d) ==
  /\ shared # 0
  /\ LET r == count_bad(strheap[shared], d)
     IN /\ strheap' = [strheap EXCEPT ![shared] = r.s]
        /\ call' = [fn |-> "count_bad", d |-> d, ret |-> r.count,
                    before |-> strheap[shared]]
  /\ UNCHANGED <<shared, others, unique>>

(***************************************************************************)
(* smart-ptr: mutate, mutate2 and mutate_unique.  A pointer parameter is   *)
(* the address it holds; the const reference adds nothing to it.           *)
(***************************************************************************)
\* "Not what you think!"
NotWhatYouThink ==
  <<"N", "o", "t", " ", "w", "h", "a", "t", " ", "y", "o", "u", " ",
    "t", "h", "i", "n", "k", "!">>
\* "Still not what you think"
StillNotWhatYouThink ==
  <<"S", "t", "i", "l", "l", " ", "n", "o", "t", " ", "w", "h", "a", "t", " ",
    "y", "o", "u", " ", "t", "h", "i", "n", "k">>
\* "Same with unique_ptr"
SameWithUniquePtr ==
  <<"S", "a", "m", "e", " ", "w", "i", "t", "h", " ", "u", "n", "i", "q",
    "u", "e", "_", "p", "t", "r">>

\* *value = "Not what you think!";
mutate(value) == strheap' = [strheap EXCEPT ![value] = NotWhatYouThink]

\* Mutant: std::string copy = *value; the write lands in a local string.
mutate2_string_copy(value) ==
  LET copy == strheap[value]
  IN strheap' = strheap

\* std::shared_ptr<std::string> copy = value; *copy = "Still not what you
\* think"; the local pointer holds the same address as the parameter.
mutate2(value) ==
  LET copy == value
  IN strheap' = [strheap EXCEPT ![copy] = StillNotWhatYouThink]

\* *value = "Same with unique_ptr";
mutate_unique(value) == strheap' = [strheap EXCEPT ![value] = SameWithUniquePtr]

\* mutate(shared), mutate2(shared), mutate_unique(unique) in a caller.  The
\* functions return nothing; ret stays -1.
Call_mutate ==
  /\ shared # 0
  /\ mutate(shared)
  /\ call' = [fn |-> "mutate", d |-> "", ret |-> -1, before |-> strheap[shared]]
  /\ UNCHANGED <<shared, others, unique>>
Call_mutate2 ==
  /\ shared # 0
  /\ mutate2(shared)
  /\ call' = [fn |-> "mutate2", d |-> "", ret |-> -1, before |-> strheap[shared]]
  /\ UNCHANGED <<shared, others, unique>>
Call_mutate_unique ==
  /\ unique # 0
  /\ mutate_unique(unique)
  /\ call' = [fn |-> "mutate_unique", d |-> "", ret |-> -1,
              before |-> strheap[unique]]
  /\ UNCHANGED <<shared, others, unique>>

\* auto other = shared;  and  other.reset();  in the caller.
Alias_copy(a) ==
  /\ others[a] # shared
  /\ others' = [others EXCEPT ![a] = shared]
  /\ UNCHANGED <<strheap, shared, call, unique>>
Alias_reset(a) ==
  /\ others[a] # 0
  /\ others' = [others EXCEPT ![a] = 0]
  /\ UNCHANGED <<strheap, shared, call, unique>>

(***************************************************************************)
(* The build: cc -c on each source file runs the pre-processor over it.    *)
(* A line is a directive with its argument or a line of code.              *)
(***************************************************************************)
Line(op, arg) == [op |-> op, arg |-> arg]
Include(h) == Line("include", h)

\* add.h
add_h ==
  <<Line("ifndef", "ADD_H_INCLUDED"),
    Line("define", "ADD_H_INCLUDED"),
    Line("code", "int add(int a, int b);"),
    Line("code", "int sub(int a, int b);"),
    Line("endif", "ADD_H_INCLUDED")>>
\* A header written after the include guard pattern whose code includes
\* add.h: headers include other headers.
filename_h ==
  <<Line("ifndef", "FILENAME_INCLUDED"),
    Line("define", "FILENAME_INCLUDED"),
    Include("add.h"),
    Line("code", "// code"),
    Line("endif", "FILENAME_INCLUDED")>>
\* <stdio.h>, reduced to the declaration simple.c uses.
stdio_h ==
  <<Line("ifndef", "_STDIO_H"),
    Line("define", "_STDIO_H"),
    Line("code", "int printf(const char *, ...);"),
    Line("endif", "_STDIO_H")>>
Headers == {"add.h", "filename.h", "stdio.h"}
HeaderLines(h) ==
  CASE h = "add.h" -> add_h
    [] h = "filename.h" -> filename_h
    [] h = "stdio.h" -> stdio_h

\* add.c and simple.c
add_c ==
  <<Include("add.h"),
    Line("code", "int add(int a, int b) { return a + b; }"),
    Line("code", "int sub(int a, int b) { return a - b; }")>>
simple_c ==
  <<Include("stdio.h"),
    Include("add.h"),
    Line("code", "int main(int argv, char **argc) { ... }")>>
SourceFiles == {"add.c", "simple.c"}
SourceLines(f) == IF f = "add.c" THEN add_c ELSE simple_c

\* The lines after the #endif that matches an #ifndef whose condition is
\* false; nothing in between is processed.
RECURSIVE SkipToEndif(_, _)
SkipToEndif(lines, depth) ==
  IF lines = <<>> THEN <<>>
  ELSE IF Head(lines).op = "ifndef" THEN SkipToEndif(Tail(lines), depth + 1)
  ELSE IF Head(lines).op = "endif"
       THEN IF depth = 0 THEN Tail(lines)
            ELSE SkipToEndif(Tail(lines), depth - 1)
  ELSE SkipToEndif(Tail(lines), depth)

\* macros (history): the macros defined when the run ended.
NotCompiled == [compiled |-> FALSE, text |-> <<>>, macros |-> {},
                nincl |-> [h \in Headers |-> 0]]
NoUnit == [file |-> "none", macros |-> {}, pending |-> <<>>, text |-> <<>>,
           nincl |-> [h \in Headers |-> 0]]
IdleBuild == cc = [src |-> <<>>, unit |-> NoUnit, done |-> <<>>]

\* Mutant: a compiler run that starts from the state the previous run left.
cc_begin_shared_state(f) ==
  /\ cc.unit.file = "none"
  /\ ~cc.done[f].compiled
  /\ cc' = [cc EXCEPT !.unit = [file |-> f,
                                macros |-> UNION {cc.done[g].macros :
                                                    g \in SourceFiles},
                                pending |-> cc.src[f], text |-> <<>>,
                                nincl |-> [h \in Headers |-> 0]]]

\* cc -c -o f.o f.c: every source file is compiled by its own run, which
\* starts with its own, empty, pre-processor state.
cc_begin(f) ==
  /\ cc.unit.file = "none"
  /\ ~cc.done[f].compiled
  /\ cc' = [cc EXCEPT !.unit = [file |-> f, macros |-> {},
                                pending |-> cc.src[f], text |-> <<>>,
                                nincl |-> [h \in Headers |-> 0]]]

\* The line the pre-processor is at.
AtLine(op) ==
  /\ cc.unit.file # "none"
  /\ cc.unit.pending # <<>>
  /\ Head(cc.unit.pending).op = op
CurrentArg == Head(cc.unit.pending).arg

\* #include: the line is replaced with the contents of the file.  nincl
\* (history) counts the #include lines processed for each header.
Directive_include ==
  /\ AtLine("include")
  /\ cc' = [cc EXCEPT
              !.unit.pending = HeaderLines(CurrentArg) \o Tail(cc.unit.pending),
              !.unit.nincl[CurrentArg] = @ + 1]

\* #ifndef: the lines up to the matching #endif are kept when the macro is
\* not defined and dropped when it is.
Directive_ifndef ==
  /\ AtLine("ifndef")
  /\ cc' = [cc EXCEPT !.unit.pending =
                        IF CurrentArg \in cc.unit.macros
                        THEN SkipToEndif(Tail(cc.unit.pending), 0)
                        ELSE Tail(cc.unit.pending)]

\* Mutant: a header without the #define line of its guard.
Directive_define_missing ==
  /\ AtLine("define")
  /\ cc' = [cc EXCEPT !.unit.pending = Tail(cc.unit.pending)]

\* #define: the macro becomes part of the run's state.
Directive_define ==
  /\ AtLine("define")
  /\ cc' = [cc EXCEPT !.unit.pending = Tail(cc.unit.pending),
                      !.unit.macros = @ \cup {CurrentArg}]

Directive_endif ==
  /\ AtLine("endif")
  /\ cc' = [cc EXCEPT !.unit.pending = Tail(cc.unit.pending)]

\* Any other line goes to the compiler proper.
Emit_code ==
  /\ AtLine("code")
  /\ cc' = [cc EXCEPT !.unit.pending = Tail(cc.unit.pending),
                      !.unit.text = Append(@, CurrentArg)]

\* End of the source file: the object is written and the run ends.
cc_end ==
  /\ cc.unit.file # "none"
  /\ cc.unit.pending = <<>>
  /\ cc' = [cc EXCEPT !.done[cc.unit.file] =
                        [compiled |-> TRUE, text |-> cc.unit.text,
                         macros |-> cc.unit.macros, nincl |-> cc.unit.nincl],
                      !.unit = NoUnit]

(***************************************************************************)
(* interface-typing: divide.  A Typescript number is a double: NaN, an     *)
(* infinity, or a finite value kept here as an exact fraction with a sign  *)
(* (zero has one too).                                                     *)
(***************************************************************************)
NaN == [kind |-> "nan", sign |-> 1, num |-> 0, den |-> 1]
Infinity(sg) == [kind |-> "inf", sign |-> sg, num |-> 0, den |-> 1]
Fraction(sg, n, d) == [kind |-> "ratio", sign |-> sg, num |-> n, den |-> d]
Integer(n) == IF n < 0 THEN Fraction(-1, -n, 1) ELSE Fraction(1, n, 1)
NegativeZero == Fraction(-1, 0, 1)

RECURSIVE Gcd(_, _)
Gcd(m, n) == IF n = 0 THEN m ELSE Gcd(n, m % n)

\* x === 0: true for 0 and -0, false for NaN.
StrictEqualsZero(x) == x.kind = "ratio" /\ x.num = 0

\* a / b on numbers.
Quotient(a, b) ==
  LET sg == a.sign * b.sign
  IN IF a.kind = "nan" \/ b.kind = "nan" THEN NaN
     ELSE IF a.kind = "inf"
          THEN IF b.kind = "inf" THEN NaN ELSE Infinity(sg)
     ELSE IF b.kind = "inf" THEN Fraction(sg, 0, 1)
     ELSE IF b.num = 0
          THEN IF a.num = 0 THEN NaN ELSE Infinity(sg)
     ELSE LET n == a.num * b.den
              d == a.den * b.num
              g == Gcd(n, d)
          IN Fraction(sg, n \div g, d \div g)

Returns(v) == [how |-> "return", value |-> v]
Throws(e) == [how |-> "throw", value |-> e]

\* Mutant: a divide that raises the error as an exception.
divide_throwing(a, b) ==
  IF StrictEqualsZero(b)
  THEN Throws([tag |-> "error", message |-> "Can't divide by 0"])
  ELSE Returns([tag |-> "result", value |-> Quotient(a, b)])

\* function divide(a: number, b: number): Result | Error
divide(a, b) ==
  IF StrictEqualsZero(b)
  THEN Returns([tag |-> "error", message |-> "Can't divide by 0"])
  ELSE Returns([tag |-> "result", value |-> Quotient(a, b)])

Numbers ==
  {Integer(n) : n \in (-MaxNum)..MaxNum}
    \cup {NegativeZero, NaN, Infinity(1), Infinity(-1)}
NoDivide == [called |-> FALSE, a |-> NaN, b |-> NaN, end |-> Returns(<<>>)]
IdleTyping == dv = NoDivide

Call_divide(a, b) ==
  dv' = [called |-> TRUE, a |-> a, b |-> b, end |-> divide(a, b)]

(***************************************************************************)
(* Specifications                                                          *)
(***************************************************************************)
InitFiles ==
  /\ fdtable = [f \in FdNums |-> 0]
  /\ descs = <<>>
  /\ objs = [o \in ObjIds |-> NoObj]
  /\ rd = NoRead

IdleMain == pc = "none" /\ out = NoReport
IdleSmart ==
  /\ heap = <<>>
  /\ watcher = [st |-> "none", config |-> 0]
  /\ holders = [h \in HolderIds |-> NoHolder]
  /\ nupdates = 0
  /\ strheap = <<>>
  /\ shared = 0
  /\ call = NoCall
  /\ others = [a \in AliasIds |-> 0]
  /\ unique = 0
  /\ IdleBuild
  /\ IdleTyping

SafeCtor ==
  /\ \E o \in ObjIds, ok \in BOOLEAN, len \in FileLens : SafeFile_ctor(o, ok, len)
  /\ UNCHANGED <<mainVars, smartVars>>
SafeDtor == (\E o \in ObjIds : SafeFile_dtor(o)) /\ UNCHANGED <<mainVars, smartVars>>
SafeRead ==
  /\ \E o \in ObjIds, err \in BOOLEAN : SafeFile_read_1024(o, err)
  /\ UNCHANGED <<mainVars, smartVars>>

NaiveCtor ==
  /\ \E o \in DOMAIN objs, ok \in BOOLEAN, len \in FileLens :
        NaiveFile_ctor(o, ok, len)
  /\ UNCHANGED <<mainVars, smartVars>>
NaiveCopy ==
  /\ \E src \in DOMAIN objs, dst \in DOMAIN objs : NaiveFile_copy(src, dst)
  /\ UNCHANGED <<mainVars, smartVars>>
NaiveDtor ==
  /\ \E o \in DOMAIN objs : NaiveFile_dtor(o)
  /\ UNCHANGED <<mainVars, smartVars>>
NaiveRead ==
  /\ \E o \in DOMAIN objs, err \in BOOLEAN : NaiveFile_read_1024(o, err)
  /\ UNCHANGED <<mainVars, smartVars>>

FileCtor ==
  /\ \E o \in DOMAIN objs, ok \in BOOLEAN, len \in FileLens :
        FileWrapper_ctor(o, ok, len)
  /\ UNCHANGED <<mainVars, smartVars>>
FileMoveCtor ==
  /\ \E src \in DOMAIN objs, dst \in DOMAIN objs : FileWrapper_move_ctor(src, dst)
  /\ UNCHANGED <<mainVars, smartVars>>
FileMoveAssign ==
  /\ \E src \in DOMAIN objs, dst \in DOMAIN objs : FileWrapper_move_assign(src, dst)
  /\ UNCHANGED <<mainVars, smartVars>>
FileDtor ==
  /\ \E o \in DOMAIN objs : FileWrapper_dtor(o)
  /\ UNCHANGED <<mainVars, smartVars>>
FileRead ==
  /\ \E o \in ObjIds, err \in BOOLEAN : FileWrapper_read_1024(o, err)
  /\ UNCHANGED <<mainVars, smartVars>>

\* Programs that use SafeFile objects only.
InitSafe == InitFiles /\ IdleMain /\ IdleSmart
NextSafe == SafeCtor \/ SafeDtor \/ SafeRead
SpecSafe == InitSafe /\ [][NextSafe]_vars

\* Programs that use FileWrapper objects only.
InitFW == InitFiles /\ IdleMain /\ IdleSmart
NextFW == FileCtor \/ FileMoveCtor \/ FileMoveAssign \/ FileDtor \/ FileRead
SpecFW == InitFW /\ [][NextFW]_vars

\* Programs that construct, move, assign and destroy FileWrapper objects
\* without reading from them; one object more than in the other programs.
MoveObjIds == 1..(MaxObj + 1)
InitFWMoves ==
  /\ fdtable = [f \in FdNums |-> 0]
  /\ descs = <<>>
  /\ objs = [o \in MoveObjIds |-> NoObj]
  /\ rd = NoRead
  /\ IdleMain
  /\ IdleSmart
NextFWMoves == FileCtor \/ FileMoveCtor \/ FileMoveAssign \/ FileDtor
SpecFWMoves == InitFWMoves /\ [][NextFWMoves]_vars

\* Programs that use NaiveFile objects only.
InitNaive == InitFiles /\ IdleMain /\ IdleSmart
NextNaive == NaiveCtor \/ NaiveCopy \/ NaiveDtor \/ NaiveRead
SpecNaive == InitNaive /\ [][NextNaive]_vars

\* Programs that mix the three wrappers.
Init == InitFiles /\ IdleMain /\ IdleSmart
Next == NextNaive \/ NextSafe \/ NextFW
Spec == Init /\ [][Next]_vars

\* Programs that use either NaiveFile objects only, or SafeFile and
\* FileWrapper objects together: a NaiveFile copy's destructor closes a
\* descriptor number whoever holds it, so the guarantees of the other two
\* classes are those of programs without NaiveFile copies.
OnlyNaive == \A o \in DOMAIN objs : objs[o].kind \in {"none", "Naive"}
NoNaive == \A o \in DOMAIN objs : objs[o].kind # "Naive"
NextUnmixed ==
  \/ OnlyNaive /\ NextNaive
  \/ NoNaive /\ NextSafe
  \/ NoNaive /\ NextFW
SpecUnmixed == Init /\ [][NextUnmixed]_vars

\* The modern-cpp main program.
InitMain ==
  /\ fdtable = [f \in FdNums |-> 0]
  /\ descs = <<>>
  /\ objs = [o \in MainObjIds |-> NoObj]
  /\ rd = NoRead
  /\ pc = "naive_ctor"
  /\ out = NoReport
  /\ IdleSmart
NextMain ==
  \/ Main_naive_ctor \/ Main_call_accidental_copy \/ Main_ac_read
  \/ Main_ac_return \/ Main_copy2 \/ Main_naive_exit_file2
  \/ Main_naive_exit_naive_file \/ Main_safe_ctor \/ Main_safe_exit
  \/ Main_file_ctor \/ Main_file_exit
SpecMain == InitMain /\ [][NextMain]_vars
\* main is sequential and none of its calls blocks: the statement at pc is
\* eventually executed.
SpecMainFair == SpecMain /\ WF_vars(NextMain)

\* smart-ptr: a ConfigWatcher and the holders of its configuration.
IdleCount ==
  /\ strheap = <<>>
  /\ shared = 0
  /\ call = NoCall
  /\ others = [a \in AliasIds |-> 0]
  /\ unique = 0
IdleFiles == InitFiles /\ IdleMain /\ IdleBuild /\ IdleTyping
InitConfig ==
  /\ heap = ConfigWatcher_ctor.heap
  /\ watcher = ConfigWatcher_ctor.watcher
  /\ holders = [h \in HolderIds |-> NoHolder]
  /\ nupdates = 0
  /\ IdleCount
  /\ IdleFiles
GetConfig ==
  /\ \E h \in HolderIds : get_config(h)
  /\ UNCHANGED <<typingVars, buildVars, fileVars, mainVars, countVars>>
UpdateConfig == update_config /\ UNCHANGED <<typingVars, buildVars, fileVars, mainVars, countVars>>
WatcherDtor == ConfigWatcher_dtor /\ UNCHANGED <<typingVars, buildVars, fileVars, mainVars, countVars>>
HolderRead ==
  /\ \E h \in HolderIds : Holder_read(h)
  /\ UNCHANGED <<typingVars, buildVars, fileVars, mainVars, countVars>>
HolderCopy ==
  /\ \E h \in HolderIds, h2 \in HolderIds : Holder_copy(h, h2)
  /\ UNCHANGED <<typingVars, buildVars, fileVars, mainVars, countVars>>
HolderDrop ==
  /\ \E h \in HolderIds : Holder_drop(h)
  /\ UNCHANGED <<typingVars, buildVars, fileVars, mainVars, countVars>>
NextConfig ==
  GetConfig \/ UpdateConfig \/ WatcherDtor \/ HolderRead \/ HolderCopy \/ HolderDrop
SpecConfig == InitConfig /\ [][NextConfig]_vars

\* smart-ptr: count_good and count_bad called on a shared string.
IdleConfig ==
  /\ heap = <<>>
  /\ watcher = [st |-> "none", config |-> 0]
  /\ holders = [h \in HolderIds |-> NoHolder]
  /\ nupdates = 0
InitCount ==
  /\ \E s \in Strings : strheap = <<s>>
  /\ shared = 1
  /\ call = NoCall
  /\ others = [a \in AliasIds |-> 0]
  /\ unique = 0
  /\ IdleConfig
  /\ IdleFiles
CountArgs == Chars \cup {"H"}
CountGood ==
  /\ \E d \in CountArgs : Call_count_good(d)
  /\ UNCHANGED <<typingVars, buildVars, fileVars, mainVars, configVars>>
CountBad ==
  /\ \E d \in CountArgs : Call_count_bad(d)
  /\ UNCHANGED <<typingVars, buildVars, fileVars, mainVars, configVars>>
NextCount == CountGood \/ CountBad
SpecCount == InitCount /\ [][NextCount]_vars

\* smart-ptr: mutate, mutate2 and mutate_unique called by a program that
\* holds a shared string (object 1) under several shared_ptr variables,
\* another shared string (object 2) and a uniquely owned one (object 3).
InitMutate ==
  /\ \E s \in Strings, t \in StringsOfLen(1), u \in StringsOfLen(1) :
        strheap = <<s, t, u>>
  /\ shared = 1
  /\ others \in [AliasIds -> {0, 1, 2}]
  /\ unique = 3
  /\ call = NoCall
  /\ IdleConfig
  /\ IdleFiles
Mutate == Call_mutate /\ UNCHANGED <<typingVars, buildVars, fileVars, mainVars, configVars>>
Mutate2 == Call_mutate2 /\ UNCHANGED <<typingVars, buildVars, fileVars, mainVars, configVars>>
MutateUnique == Call_mutate_unique /\ UNCHANGED <<typingVars, buildVars, fileVars, mainVars, configVars>>
AliasCopy ==
  /\ \E a \in AliasIds : Alias_copy(a)
  /\ UNCHANGED <<typingVars, buildVars, fileVars, mainVars, configVars>>
AliasReset ==
  /\ \E a \in AliasIds : Alias_reset(a)
  /\ UNCHANGED <<typingVars, buildVars, fileVars, mainVars, configVars>>
NextMutate == Mutate \/ Mutate2 \/ MutateUnique \/ AliasCopy \/ AliasReset
SpecMutate == InitMutate /\ [][NextMutate]_vars

\* interface-typing: calls of divide.
InitDivide ==
  /\ IdleTyping
  /\ InitFiles
  /\ IdleMain
  /\ IdleConfig
  /\ IdleCount
  /\ IdleBuild
Divide ==
  /\ \E a \in Numbers, b \in Numbers : Call_divide(a, b)
  /\ UNCHANGED <<buildVars, fileVars, mainVars, configVars, countVars>>
NextDivide == Divide
SpecDivide == InitDivide /\ [][NextDivide]_vars

\* The build of the trivial C program: add.c and simple.c, each compiled
\* once, in either order.  A source file may include further headers, in
\* any order and more than once, before its own lines.
RECURSIVE IncludeLists(_)
IncludeLists(n) ==
  IF n = 0 THEN {<<>>}
  ELSE IncludeLists(n - 1) \cup
       {<<Include(h)>> \o l : h \in Headers, l \in IncludeLists(n - 1)}
InitBuild ==
  /\ \E extra \in [SourceFiles -> IncludeLists(MaxIncludes)] :
        cc = [src |-> [f \in SourceFiles |-> extra[f] \o SourceLines(f)],
              unit |-> NoUnit,
              done |-> [f \in SourceFiles |-> NotCompiled]]
  /\ InitFiles
  /\ IdleMain
  /\ IdleConfig
  /\ IdleCount
  /\ IdleTyping
CcBegin ==
  /\ \E f \in SourceFiles : cc_begin(f)
  /\ UNCHANGED <<typingVars, fileVars, mainVars, configVars, countVars>>
CppInclude == Directive_include /\ UNCHANGED <<typingVars, fileVars, mainVars, configVars, countVars>>
CppIfndef == Directive_ifndef /\ UNCHANGED <<typingVars, fileVars, mainVars, configVars, countVars>>
CppDefine == Directive_define /\ UNCHANGED <<typingVars, fileVars, mainVars, configVars, countVars>>
CppEndif == Directive_endif /\ UNCHANGED <<typingVars, fileVars, mainVars, configVars, countVars>>
CppCode == Emit_code /\ UNCHANGED <<typingVars, fileVars, mainVars, configVars, countVars>>
CcEnd == cc_end /\ UNCHANGED <<typingVars, fileVars, mainVars, configVars, countVars>>
NextBuild ==
  CcBegin \/ CppInclude \/ CppIfndef \/ CppDefine \/ CppEndif \/ CppCode \/ CcEnd
SpecBuild == InitBuild /\ [][NextBuild]_vars

(***************************************************************************)
(* Properties                                                              *)
(***************************************************************************)
\* The events of kind e in a log, and in object o's log.
EventsIn(log, e) == {i \in 1..Len(log) : log[i].ev = e}
EventsOf(o, e) == EventsIn(objs[o].log, e)
NEvents(o, e) == Cardinality(EventsOf(o, e))
Born(o) == objs[o].st # "unborn"
AllDestroyed == \A o \in DOMAIN objs : objs[o].st # "live"

\* C1: a SafeFile whose open succeeded holds an open descriptor as long as it
\* lives, with no destructor run and no close; once destroyed, its destructor
\* has run once and called close exactly once, on that descriptor, with
\* success, and the descriptor is closed.
C1_SafeFileClosesOnce ==
  \A o \in DOMAIN objs :
    (objs[o].kind = "Safe" /\ objs[o].own # 0) =>
      LET d == descs[objs[o].own]
      IN /\ objs[o].fd = d.fd
         /\ objs[o].st = "live" =>
              /\ d.open
              /\ fdtable[d.fd] = objs[o].own
              /\ NEvents(o, "dtor") = 0
              /\ NEvents(o, "close") = 0
         /\ objs[o].st = "dead" =>
              /\ ~d.open
              /\ NEvents(o, "dtor") = 1
              /\ NEvents(o, "close") = 1
              /\ NEvents(o, "stderr") = 0
              /\ \A i \in EventsOf(o, "close") :
                    objs[o].log[i].fd = d.fd /\ objs[o].log[i].res = 0

\* C1 witness: a SafeFile that opened a file, was read from, and was destroyed.
C1_Witness ==
  \E o \in DOMAIN objs :
    /\ objs[o].kind = "Safe" /\ objs[o].st = "dead" /\ objs[o].own # 0
    /\ descs[objs[o].own].off > 0

\* C2: once every FileWrapper that was created has been destroyed, every
\* descriptor a successful open returned is closed, and no close failed.
C2_EveryDescriptorClosedOnce ==
  AllDestroyed =>
    /\ \A i \in DOMAIN descs : ~descs[i].open
    /\ \A o \in DOMAIN objs : NEvents(o, "stderr") = 0

\* C3: in main's NaiveFile block the copies hold the original's descriptor
\* number; each of the three destructors calls close once on that number; the
\* parameter of accidental_copy is destroyed first and its close succeeds,
\* then file2 and naive_file, whose closes fail (EBADF) and are reported.
NaiveBlockObjs == {naive_file, file_param, file2}
CloseResults(o) == {objs[o].log[i].res : i \in EventsOf(o, "close")}
C3_NaiveCopiesCloseSameFd ==
  /\ \A o \in {file_param, file2} :
       Born(o) => objs[o].fd = objs[naive_file].fd
  /\ objs[file2].st = "dead" => objs[file_param].st = "dead"
  /\ objs[naive_file].st = "dead" => objs[file2].st = "dead"
  /\ objs[naive_file].own # 0 =>
       /\ \A o \in NaiveBlockObjs :
            objs[o].st = "dead" =>
              /\ NEvents(o, "dtor") = 1
              /\ NEvents(o, "close") = 1
              /\ \A i \in EventsOf(o, "close") :
                    objs[o].log[i].fd = descs[objs[naive_file].own].fd
       /\ objs[file_param].st = "dead" =>
            CloseResults(file_param) = {0} /\ NEvents(file_param, "stderr") = 0
       /\ objs[file2].st = "dead" =>
            CloseResults(file2) = {-1} /\ NEvents(file2, "stderr") = 1
       /\ objs[naive_file].st = "dead" =>
            CloseResults(naive_file) = {-1} /\ NEvents(naive_file, "stderr") = 1

\* C3 witness: the NaiveFile block has ended after a successful open.
C3_Witness ==
  /\ pc = "safe_ctor"
  /\ objs[naive_file].own # 0
  /\ \A o \in NaiveBlockObjs : objs[o].st = "dead" /\ NEvents(o, "dtor") = 1

\* C4: a move construction gives the destination the source's fd and sets
\* the source's fd to -1 without touching the descriptor table; destroying a
\* wrapper whose fd is -1 calls no close; and a descriptor is closed only by
\* the destructor of the wrapper that holds it.
C4_MoveCtorTransfers ==
  [][ /\ \A src \in DOMAIN objs, dst \in DOMAIN objs :
           FileWrapper_move_ctor(src, dst) =>
             /\ objs'[dst].fd = objs[src].fd
             /\ objs'[src].fd = -1
             /\ fdtable' = fdtable
      /\ \A o \in DOMAIN objs :
           (FileWrapper_dtor(o) /\ objs[o].fd = -1) =>
             /\ fdtable' = fdtable
             /\ EventsIn(objs'[o].log, "close") = {}
      /\ \A f \in FdNums :
           (fdtable[f] # 0 /\ fdtable'[f] = 0) =>
             \E o \in DOMAIN objs : FileWrapper_dtor(o) /\ objs[o].fd = f
    ]_vars

\* C4 witness: a wrapper move-constructed from another; both destroyed, the
\* source without a close, the destination closing the descriptor.
C4_Witness ==
  \E dst \in DOMAIN objs :
    /\ objs[dst].from # 0
    /\ objs[dst].st = "dead" /\ objs[objs[dst].from].st = "dead"
    /\ objs[objs[dst].from].fd = -1
    /\ NEvents(objs[dst].from, "close") = 0
    /\ objs[dst].own # 0 /\ ~descs[objs[dst].own].open
    /\ CloseResults(dst) = {0}

\* C5: a constructor whose open fails leaves a live object with fd < 0 and
\* the descriptor table untouched; a destructor calls close once when the
\* object's fd is >= 0 and not at all when it is negative.
AnyCtor(o, ok, len) ==
  NaiveFile_ctor(o, ok, len) \/ SafeFile_ctor(o, ok, len) \/ FileWrapper_ctor(o, ok, len)
AnyDtor(o) == NaiveFile_dtor(o) \/ SafeFile_dtor(o) \/ FileWrapper_dtor(o)
C5_FailedOpenNoClose ==
  [][ \A o \in DOMAIN objs :
        /\ \A ok \in BOOLEAN, len \in FileLens :
             (AnyCtor(o, ok, len) /\ sys_open(ok, len).ret < 0) =>
               /\ objs'[o].st = "live"
               /\ objs'[o].fd < 0
               /\ fdtable' = fdtable
        /\ AnyDtor(o) =>
             /\ objs'[o].st = "dead"
             /\ Cardinality(EventsIn(objs'[o].log, "close"))
                  = NEvents(o, "close") + (IF objs[o].fd >= 0 THEN 1 ELSE 0)
             /\ objs[o].fd < 0 => fdtable' = fdtable
    ]_vars

\* C5 witness: a NaiveFile and a FileWrapper whose opens failed, destroyed
\* without a close.
C5_Witness ==
  \E o1 \in DOMAIN objs, o2 \in DOMAIN objs :
    /\ objs[o1].kind = "Naive" /\ objs[o2].kind = "File"
    /\ \A o \in {o1, o2} :
         /\ objs[o].st = "dead" /\ objs[o].from = 0 /\ objs[o].fd < 0
         /\ NEvents(o, "dtor") = 1 /\ NEvents(o, "close") = 0
    /\ descs = <<>>

\* C6: read_1024 returns between 0 and 1024 characters; with a negative fd
\* it returns the empty string and makes no read call; when read returns an
\* error it returns the empty string; when read returns n > 0 it returns
\* exactly those n characters.
AnyRead(o, err) ==
  NaiveFile_read_1024(o, err) \/ SafeFile_read_1024(o, err) \/ FileWrapper_read_1024(o, err)
C6_Read1024Result ==
  [][ \A o \in DOMAIN objs, err \in BOOLEAN :
        AnyRead(o, err) =>
          /\ rd'.len \in 0..nbytes
          /\ objs[o].fd < 0 =>
               rd'.len = 0 /\ ~rd'.syscall /\ descs' = descs
          /\ objs[o].fd >= 0 =>
               rd'.syscall /\ rd'.n = sys_read(objs[o].fd, nbytes, err).ret
          /\ (rd'.syscall /\ rd'.n < 0) => rd'.len = 0
          /\ (rd'.syscall /\ rd'.n > 0) =>
               /\ rd'.len = rd'.n
               /\ rd'.start = descs[fdtable[objs[o].fd]].off
               /\ descs'[fdtable[objs[o].fd]].off = rd'.start + rd'.n
    ]_vars

\* C6 witness: a read that returned fewer than 1024 characters.
C6_Witness == rd.syscall /\ rd.n > 0 /\ rd.n < nbytes /\ rd.len = rd.n

\* C7: the fields of a Config change only in update_config: get_config and
\* every step of a holder (reading through its pointer, copying it, dropping
\* it) leave hostname, port and url of every Config as they were.
ConfigFields ==
  [a \in DOMAIN heap |-> <<heap[a].hostname, heap[a].port, heap[a].url>>]
HolderStep(h) ==
  \/ Holder_read(h)
  \/ \E h2 \in HolderIds : Holder_copy(h, h2)
  \/ Holder_drop(h)
C7_OnlyUpdateConfigWrites ==
  [][ /\ \A h \in HolderIds :
           (get_config(h) \/ HolderStep(h)) => ConfigFields' = ConfigFields
      /\ ConfigFields' # ConfigFields => update_config
    ]_vars

\* C7 witness: two holders share the configuration after an update, and one
\* has read it.
C7_Witness ==
  /\ nupdates >= 1
  /\ \A h \in {1, 2} : holders[h].ptr # 0
  /\ \E h \in {1, 2} : holders[h].seen.at = nupdates

\* C8: there is one Config object; the watcher and every holder point to it;
\* after k calls of update_config its port is 80 + k, its hostname
\* "localhost" and its url "/index.html"; and every read through a holder's
\* pointer gave the values of its time, whenever the pointer was obtained.
C8_HoldersSeeUpdates ==
  /\ Len(heap) = 1
  /\ watcher.st = "live" => watcher.config = 1
  /\ heap[1].port = 80 + nupdates
  /\ heap[1].hostname = "localhost"
  /\ heap[1].url = "/index.html"
  /\ \A h \in HolderIds :
       /\ holders[h].ptr # 0 => (holders[h].ptr = 1 /\ heap[1].alive)
       /\ holders[h].seen.at # -1 =>
            /\ holders[h].seen.port = 80 + holders[h].seen.at
            /\ holders[h].seen.hostname = "localhost"
            /\ holders[h].seen.url = "/index.html"

\* C8 witness: as in main, a pointer obtained before any update reads port
\* 81 after the first update.
C8_Witness ==
  \E h \in HolderIds :
    /\ holders[h].ptr # 0 /\ holders[h].since = 0
    /\ holders[h].seen.at = 1 /\ holders[h].seen.port = 81

\* C9: count_good(s, d) returns the number of positions of s that hold d,
\* and the string is as it was before the call.
Occurrences(s, d) == Cardinality({i \in 1..Len(s) : s[i] = d})
C9_CountGoodCounts ==
  call.fn = "count_good" =>
    /\ call.ret = Occurrences(call.before, call.d)
    /\ strheap[shared] = call.before

\* C9 witness: count_good(*shared, 'l') on "Hello shared world!" returned 3.
C9_Witness ==
  /\ call.fn = "count_good" /\ call.d = "l" /\ call.ret = 3
  /\ call.before = HelloSharedWorld

\* "He**o shared wor*d!"
HelloStarred ==
  <<"H", "e", "*", "*", "o", " ", "s", "h", "a", "r", "e", "d", " ",
    "w", "o", "r", "*", "d", "!">>

\* C10: count_bad(s, d) returns what count_good returns on the string's value
\* before the call; afterwards the string the caller's shared_ptr points to
\* has the same length, '*' wherever d was, and every other position
\* unchanged ("Hello shared world!" with 'l': 3 and "He**o shared wor*d!").
C10_CountBadCountsAndStars ==
  call.fn = "count_bad" =>
    LET now == strheap[shared]
        b == call.before
    IN /\ call.ret = count_good(b, call.d)
       /\ call.ret = Occurrences(b, call.d)
       /\ Len(now) = Len(b)
       /\ \A i \in 1..Len(b) : now[i] = IF b[i] = call.d THEN "*" ELSE b[i]
       /\ (b = HelloSharedWorld /\ call.d = "l") =>
            (call.ret = 3 /\ now = HelloStarred)

\* C10 witness: count_bad(shared, 'l') on "Hello shared world!".
C10_Witness ==
  /\ call.fn = "count_bad" /\ call.d = "l" /\ call.ret = 3
  /\ call.before = HelloSharedWorld
  /\ strheap[shared] = HelloStarred

\* The value read through a shared_ptr<std::string> or unique_ptr holding
\* address p.
Deref(p) == strheap[p]
Aliases(p) == {a \in AliasIds : others[a] = p}

\* C11: after mutate(shared), mutate2(shared) or mutate_unique(unique) the
\* string of the caller's pointer is the function's literal, whatever it was
\* before, and every other shared_ptr holding the same address reads that
\* literal too; the const reference protects nothing.
C11_ConstRefDoesNotProtect ==
  /\ call.fn = "mutate" =>
        /\ Deref(shared) = NotWhatYouThink
        /\ \A a \in Aliases(shared) : Deref(others[a]) = NotWhatYouThink
  /\ call.fn = "mutate2" =>
        /\ Deref(shared) = StillNotWhatYouThink
        /\ \A a \in Aliases(shared) : Deref(others[a]) = StillNotWhatYouThink
  /\ call.fn = "mutate_unique" => Deref(unique) = SameWithUniquePtr

\* C11 witness: mutate2 overwrote a different string while another
\* shared_ptr aliased it, and a third pointer aliases another object.
C11_Witness ==
  /\ call.fn = "mutate2"
  /\ call.before # StillNotWhatYouThink
  /\ Aliases(shared) # {}
  /\ \E a \in AliasIds : others[a] \notin {0, shared}

\* The text a compiler run has produced for source file f so far: the
\* finished run's, else the run in progress on f, else nothing.
TextOf(f) ==
  IF cc.done[f].compiled THEN cc.done[f].text
  ELSE IF cc.unit.file = f THEN cc.unit.text ELSE <<>>
InclOf(f) ==
  IF cc.done[f].compiled THEN cc.done[f].nincl
  ELSE IF cc.unit.file = f THEN cc.unit.nincl ELSE [h \in Headers |-> 0]
\* How many times line c was emitted.
Emitted(text, c) == Cardinality({i \in 1..Len(text) : text[i] = c})
\* The code lines of header h itself.
Declarations(h) ==
  {HeaderLines(h)[i].arg :
     i \in {j \in 1..Len(HeaderLines(h)) : HeaderLines(h)[j].op = "code"}}

\* C12: within one compiler run, however many #include lines name a guarded
\* header (in the source file or in other headers), each of the header's
\* declarations is emitted at most once at any time, never when no #include
\* named the header, and exactly once when the run has finished and some
\* #include named it.
C12_GuardedHeaderEmittedOnce ==
  \A f \in SourceFiles, h \in Headers : \A c \in Declarations(h) :
    /\ Emitted(TextOf(f), c) <= 1
    /\ InclOf(f)[h] = 0 => Emitted(TextOf(f), c) = 0
    /\ (cc.done[f].compiled /\ InclOf(f)[h] >= 1) => Emitted(TextOf(f), c) = 1

\* C12 witness: a finished run in which add.h was named by three #include
\* lines, one of them inside filename.h.
C12_Witness ==
  \E f \in SourceFiles :
    /\ cc.done[f].compiled
    /\ cc.done[f].nincl["add.h"] >= 3
    /\ cc.done[f].nincl["filename.h"] >= 1
    /\ Emitted(cc.done[f].text, "int add(int a, int b);") = 1

\* C13: a compiler run starts with no macro defined, whatever the runs
\* before it defined, so both add.c and simple.c, compiled in either order,
\* get the declarations of add.h exactly once.
RunStarts(f) ==
  /\ cc.unit.file = f
  /\ cc.unit.pending = cc.src[f]
  /\ cc.unit.text = <<>>
  /\ cc.unit.nincl = NoUnit.nincl
C13_PreprocessorStatePerFile ==
  /\ \A f \in SourceFiles : RunStarts(f) => cc.unit.macros = {}
  /\ \A f \in SourceFiles, c \in Declarations("add.h") :
       cc.done[f].compiled => Emitted(cc.done[f].text, c) = 1

\* C13 witness: both runs have ended, each defined the guard of add.h
\* while it ran, and each text has the declarations of add.h.
C13_Witness ==
  /\ \A f \in SourceFiles :
       /\ cc.done[f].compiled
       /\ "ADD_H_INCLUDED" \in cc.done[f].macros
       /\ Emitted(cc.done[f].text, "int sub(int a, int b);") = 1
  /\ cc.unit = NoUnit

\* The close(2) calls of all objects' special members, and those that
\* succeeded.
CloseCalls == UNION {{<<o, i>> : i \in EventsOf(o, "close")} : o \in DOMAIN objs}
ClosedDescs == {i \in DOMAIN descs : ~descs[i].open}

\* C14: in FileWrapper programs (construction, move construction, move
\* assignment onto any wrapper, itself included, read_1024, destruction)
\* every close call is made by a destructor on an open descriptor and
\* succeeds, a destructor makes at most one, and there are exactly as many
\* close calls as closed descriptors: no descriptor is closed twice.
C14_NoDoubleClose ==
  /\ \A c \in CloseCalls : objs[c[1]].log[c[2]].res = 0
  /\ \A o \in DOMAIN objs :
       /\ NEvents(o, "close") <= NEvents(o, "dtor")
       /\ NEvents(o, "dtor") <= 1
       /\ NEvents(o, "stderr") = 0
  /\ Cardinality(CloseCalls) = Cardinality(ClosedDescs)

\* C14 witness: the first wrapper opened descriptor 1, was move-assigned
\* descriptor 2 from the second, and both were destroyed: one close, of
\* descriptor 2, by the first wrapper's destructor.
C14_Witness ==
  /\ AllDestroyed
  /\ Len(descs) = 2
  /\ objs[1].kind = "File" /\ objs[1].from = 0 /\ objs[1].own = 2
  /\ NEvents(1, "close") = 1
  /\ objs[2].kind = "File" /\ objs[2].fd = -1 /\ NEvents(2, "close") = 0
  /\ ~descs[2].open

\* C15: a move assignment between two distinct wrappers gives the target
\* the source's fd, sets the source's fd to -1, changes no other wrapper's
\* fd and, like the move constructor, leaves the descriptor table alone.
C15_MoveAssignTransfers ==
  [][\A src \in DOMAIN objs, dst \in DOMAIN objs :
       (FileWrapper_move_assign(src, dst) /\ src # dst) =>
         /\ objs'[dst].fd = objs[src].fd
         /\ objs'[src].fd = -1
         /\ \A o \in DOMAIN objs \ {src, dst} : objs'[o].fd = objs[o].fd
         /\ fdtable' = fdtable
         /\ descs' = descs]_vars

\* C15 witness: three live wrappers, each constructed on a path; the first,
\* whose own open came before any other, now holds the second descriptor
\* opened, which the third opened and no longer has; the second still holds
\* the first descriptor opened.
C15_Witness ==
  /\ \A o \in 1..3 : Live(o, "File") /\ objs[o].from = 0
  /\ objs[1].own = 2 /\ objs[1].fd = descs[2].fd
  /\ objs[3].fd = -1
  /\ objs[2].own = 1 /\ objs[2].fd = descs[1].fd

\* C16: a move assignment onto a wrapper that holds an open descriptor leaves
\* that descriptor closed or held by a live wrapper whose destructor will
\* close it; it is not left open with no wrapper holding it.
C16_AssignReleasesTarget ==
  [][\A src \in DOMAIN objs, dst \in DOMAIN objs :
       (FileWrapper_move_assign(src, dst) /\ src # dst /\ objs[dst].own # 0) =>
         \/ ~descs'[objs[dst].own].open
         \/ \E o \in DOMAIN objs :
              objs'[o].st = "live" /\ objs'[o].own = objs[dst].own]_vars

\* C17: a move assignment of a wrapper to itself leaves its fd unchanged.
C17_SelfAssignKeepsFd ==
  [][\A o \in DOMAIN objs :
       FileWrapper_move_assign(o, o) => objs'[o].fd = objs[o].fd]_vars

\* The live objects of the classes whose copies are deleted.
Owners == {o \in DOMAIN objs : Live(o, "File") \/ Live(o, "Safe")}

C20_MovedFromReadsEmpty ==
  [][/\ \A src \in DOMAIN objs, dst \in DOMAIN objs :
          (FileWrapper_move_ctor(src, dst) \/ FileWrapper_move_assign(src, dst))
            => objs'[src].fd = -1
     /\ \A o \in DOMAIN objs, err \in BOOLEAN :
          (FileWrapper_read_1024(o, err) /\ objs[o].fd = -1) =>
            /\ rd'.len = 0
            /\ ~rd'.syscall
            /\ descs' = descs
            /\ fdtable' = fdtable]_vars

\* C20 witness: a wrapper was read from (a system call), then moved into a
\* second one, then read again: the last read_1024 made no system call and
\* returned nothing, and the descriptor the destination owns is where the
\* first read left it.
C20_Witness ==
  \E src \in DOMAIN objs, dst \in DOMAIN objs :
    /\ Live(src, "File") /\ Live(dst, "File")
    /\ objs[dst].from = src
    /\ objs[src].fd = -1
    /\ objs[dst].own # 0
    /\ descs[objs[dst].own].off = nbytes
    /\ descs[objs[dst].own].len > nbytes
    /\ ~rd.syscall /\ rd.len = 0

\* The close calls in object o's log that failed.
FailedCloses(o) == {i \in EventsOf(o, "close") : objs[o].log[i].res < 0}

OpenFds == {f \in FdNums : fdtable[f] # 0}

\* C22: in main at most one descriptor is open at any time, and none is
\* open when the SafeFile is about to be constructed (the NaiveFile block's
\* was closed) nor when the FileWrapper is (the SafeFile's was closed).
C22_MainOneDescriptorOpen ==
  /\ Cardinality(OpenFds) <= 1
  /\ Cardinality({i \in DOMAIN descs : descs[i].open}) <= 1
  /\ pc \in {"safe_ctor", "file_ctor"} =>
        OpenFds = {} /\ \A i \in DOMAIN descs : ~descs[i].open

\* C22 witness: the FileWrapper is about to be constructed after the
\* NaiveFile and the SafeFile each opened a descriptor.
C22_Witness ==
  /\ pc = "file_ctor"
  /\ objs[naive_file].own = 1
  /\ objs[safe_file].own = 2
  /\ OpenFds = {}

\* C23: main reaches its end and stays there, with every descriptor its
\* wrappers opened closed and no descriptor number open, whichever of the
\* three opens succeeded.
C23_MainTerminatesAllClosed ==
  <>[](/\ pc = "done"
       /\ OpenFds = {}
       /\ \A i \in DOMAIN descs : ~descs[i].open)

\* C23 witness: main has ended after three successful opens.
C23_Witness ==
  /\ pc = "done"
  /\ Len(descs) = 3
  /\ \A i \in DOMAIN descs : ~descs[i].open

\* The descriptor main's NaiveFile block opened is open / is closed.
NaiveDescOpen == objs[naive_file].own # 0 /\ descs[objs[naive_file].own].open
NaiveDescClosed == objs[naive_file].own # 0 => ~descs[objs[naive_file].own].open

\* C24: in main's NaiveFile block the read_1024 call comes before any close
\* and is the only read; the return of accidental_copy destroys its
\* parameter while file2 does not exist yet and naive_file lives, and that
\* destructor's close is the one that releases the descriptor; file2 is then
\* copied from naive_file with the descriptor already closed; file2 is
\* destroyed before naive_file, and neither of their destructors releases
\* anything.
C24_NaiveBlockOrder ==
  [][/\ Main_ac_read => CloseCalls = {}
     /\ (rd' # rd) => pc = "ac_read"
     /\ Main_ac_return =>
          /\ objs'[file_param].st = "dead"
          /\ objs[file2].st = "unborn" /\ objs[naive_file].st = "live"
          /\ objs[naive_file].own # 0 => (NaiveDescOpen /\ NaiveDescClosed')
     /\ Main_copy2 =>
          /\ objs[file_param].st = "dead"
          /\ NaiveDescClosed
          /\ objs'[file2].fd = objs[naive_file].fd
     /\ Main_naive_exit_file2 =>
          /\ objs[file_param].st = "dead" /\ objs[naive_file].st = "live"
          /\ objs'[file2].st = "dead"
          /\ descs' = descs /\ fdtable' = fdtable
     /\ Main_naive_exit_naive_file =>
          /\ objs[file2].st = "dead"
          /\ objs'[naive_file].st = "dead"
          /\ descs' = descs /\ fdtable' = fdtable]_vars

\* C24 witness: the block has ended; the read got data, the parameter's
\* close succeeded, and the closes of file2 and naive_file failed.
C24_Witness ==
  /\ pc = "safe_ctor"
  /\ rd.syscall /\ rd.n > 0
  /\ CloseResults(file_param) = {0}
  /\ FailedCloses(file2) # {}
  /\ FailedCloses(naive_file) # {}

\* C25: in main, when a NaiveFile destructor's close releases a descriptor,
\* it is the descriptor the object's constructor, or the constructor of the
\* object it was copied from, opened; no open happens between the first
\* close in the NaiveFile block and the block's last destructor, so no
\* descriptor opened later under the same number is ever closed by one.
C25_NaiveDtorClosesOwnDescriptor ==
  [][/\ \A o \in DOMAIN objs :
          (NaiveFile_dtor(o) /\ objs[o].fd >= 0 /\ fdtable[objs[o].fd] # 0) =>
            /\ fdtable[objs[o].fd] = objs[o].own
            /\ objs[o].own = objs[naive_file].own
     /\ (CloseCalls # {} /\ objs[naive_file].st = "live") => descs' = descs
     /\ \A i \in DOMAIN descs :
          (descs[i].open /\ ~descs'[i].open /\ i # objs[naive_file].own) =>
            (Main_safe_exit \/ Main_file_exit)]_vars

\* C25 witness: the three NaiveFile destructors have called close on number
\* 3, and safe_file then opened a descriptor that got the same number and
\* is open.
C25_Witness ==
  /\ pc = "safe_exit"
  /\ \A o \in NaiveBlockObjs : NEvents(o, "close") = 1
  /\ objs[safe_file].own = 2
  /\ descs[2].fd = descs[1].fd
  /\ descs[2].open /\ ~descs[1].open

\* C26: once accidental_copy has printed its report (the read not having
\* failed), it says "bigger than 1KB" exactly when the file behind the
\* wrapper's descriptor holds more than 1024 bytes, and otherwise gives the
\* file's exact length; a wrapper whose open failed is reported as 0 bytes.
C26_AccidentalCopyReport ==
  (out # NoReport /\ rd.n >= 0) =>
    IF objs[naive_file].own = 0
    THEN out = [big |-> FALSE, size |-> 0]
    ELSE LET available == descs[objs[naive_file].own].len
         IN /\ out.big <=> available > nbytes
            /\ ~out.big => out.size = available

\* A read_1024 call on object o, of whichever wrapper class.
AnyRead1024(o, err) ==
  \/ NaiveFile_read_1024(o, err)
  \/ SafeFile_read_1024(o, err)
  \/ FileWrapper_read_1024(o, err)

\* C27: read_1024 on a wrapper holding an open descriptor, the read not
\* failing, returns the bytes from the descriptor's file offset on, as many
\* as are left up to 1024, and advances that offset by the length returned,
\* whichever object sharing the descriptor made the call; with nothing left
\* (empty file, end of file) read returns 0 and the result is the empty
\* string, the very result of a failed read.
C27_ConsecutiveChunks ==
  [][\A o \in DOMAIN objs :
       /\ (AnyRead1024(o, FALSE) /\ objs[o].fd >= 0 /\ fdtable[objs[o].fd] # 0) =>
            LET i == fdtable[objs[o].fd]
                left == descs[i].len - descs[i].off
            IN /\ rd'.syscall
               /\ rd'.n = Min(nbytes, left)
               /\ rd'.len = rd'.n
               /\ rd'.n > 0 => rd'.start = descs[i].off
               /\ descs' = [descs EXCEPT ![i].off = @ + rd'.len]
               /\ left = 0 => [start |-> rd'.start, len |-> rd'.len] = EmptyString
       /\ (AnyRead1024(o, TRUE) /\ objs[o].fd >= 0) =>
            /\ rd'.syscall /\ rd'.n < 0
            /\ [start |-> rd'.start, len |-> rd'.len] = EmptyString
            /\ descs' = descs]_vars

\* C27 witness: a NaiveFile and its copy share a descriptor of a file longer
\* than 1024 bytes that has been read to its end, and the last read_1024
\* was a read that returned 0 bytes.
C27_Witness ==
  \E o \in DOMAIN objs, p \in DOMAIN objs :
    /\ Live(o, "Naive") /\ Live(p, "Naive")
    /\ objs[p].from = o
    /\ objs[o].own # 0 /\ objs[p].own = objs[o].own
    /\ descs[objs[o].own].len > nbytes
    /\ descs[objs[o].own].off = descs[objs[o].own].len
    /\ rd.syscall /\ rd.n = 0 /\ rd.len = 0

\* The pointers that own Config object a: the watcher's member while the
\* watcher lives, and the holders' variables.
ConfigOwners(a) ==
  (IF watcher.st = "live" /\ watcher.config = a THEN 1 ELSE 0)
    + Cardinality({h \in HolderIds : holders[h].ptr = a})

\* C28: the Config object's owner count is 1 for the live watcher plus the
\* number of holders' pointers; the object is alive exactly while the count
\* is above 0; and a holder reading after the watcher's destruction reads a
\* live object and gets its fields.
C28_ConfigLifetime ==
  /\ [](\A a \in DOMAIN heap :
          /\ heap[a].use_count = ConfigOwners(a)
          /\ heap[a].alive <=> heap[a].use_count > 0)
  /\ [][\A h \in HolderIds :
          (Holder_read(h) /\ watcher.st = "dead") =>
            /\ heap[holders[h].ptr].alive
            /\ holders'[h].seen.port = heap[holders[h].ptr].port
            /\ holders'[h].seen.hostname = heap[holders[h].ptr].hostname
            /\ holders'[h].seen.url = heap[holders[h].ptr].url]_vars

\* C28 witness: the watcher has been destroyed after an update, and one
\* holder, the Config's only owner left, has read the updated port.
C28_Witness ==
  /\ watcher.st = "dead"
  /\ nupdates >= 1
  /\ heap[1].alive /\ heap[1].use_count = 1
  /\ \E h \in HolderIds :
       holders[h].ptr = 1 /\ holders[h].seen.port = 80 + nupdates

\* C29: a call of divide returns, never throws; what it returns has the tag
\* 'error' and the message "Can't divide by 0", and nothing else, exactly
\* when b is 0 (or -0); otherwise it has the tag 'result' and the value
\* a / b, and nothing else.
C29_DivideTaggedUnion ==
  dv.called =>
    /\ dv.end.how = "return"
    /\ dv.end.value.tag \in {"result", "error"}
    /\ dv.end.value.tag = "error" <=> StrictEqualsZero(dv.b)
    /\ dv.end.value.tag = "error" =>
         dv.end.value = [tag |-> "error", message |-> "Can't divide by 0"]
    /\ dv.end.value.tag = "result" =>
         /\ DOMAIN dv.end.value = {"tag", "value"}
         /\ dv.end.value.value = Quotient(dv.a, dv.b)

\* C29 witness: divide(3, -0) returned the error value.
C29_Witness ==
  /\ dv.called
  /\ dv.a = Integer(3) /\ dv.b = NegativeZero
  /\ dv.end = Returns([tag |-> "error", message |-> "Can't divide by 0"])

=============================================================================
